---- MODULE Spec2Model ----
(***************************************************************************)
(* CareerGuide: the skill requirement matching and readiness scoring       *)
(* engine (edge function analyze-skill-gaps) together with the tables of   *)
(* migration 002 it reads and writes.                                      *)
(*                                                                         *)
(* A skill name is a sequence of one-character strings, so that the        *)
(* string operations of the code (toLowerCase, replace, includes) are      *)
(* computed character by character.                                        *)
(***************************************************************************)
EXTENDS Integers, Sequences, FiniteSets, TLC

VARIABLES
  user_skills,         \* rows of table user_skills of the caller, in table order
  target_role_skills,  \* rows of table target_role_skills of the roadmap
  skill_gap_analysis,  \* rows of table skill_gap_analysis
  api_usage,           \* rows of table api_usage
  response,            \* the last HTTP response of an invocation run in one
                       \* step (Recompute, Calculate); see requests otherwise
  now,                 \* the clock read by new Date()
  lastOp,              \* the operation that produced this state
  requests,            \* the invocations of the edge function, each with its
                       \* position in the handler and its local variables
  skillGapAnalysis     \* state skillGapAnalysis of the Roadmap page

vars == <<user_skills, target_role_skills, skill_gap_analysis, api_usage,
          response, now, lastOp, requests, skillGapAnalysis>>

----------------------------------------------------------------------------
(* Strings *)

UpperChars ==
  <<"A","B","C","D","E","F","G","H","I","J","K","L","M",
    "N","O","P","Q","R","S","T","U","V","W","X","Y","Z">>

LowerChars ==
  <<"a","b","c","d","e","f","g","h","i","j","k","l","m",
    "n","o","p","q","r","s","t","u","v","w","x","y","z">>

\* the characters matched by \s that occur in the names of the model
Whitespace == {" ", "\t"}

\* the characters matched by [.\-_]
Punctuation == {".", "-", "_"}

toLowerChar(c) ==
  IF \E i \in 1..26 : UpperChars[i] = c
    THEN LowerChars[CHOOSE i \in 1..26 : UpperChars[i] = c]
    ELSE c

\* String.prototype.toLowerCase
toLowerCase(s) == [i \in 1..Len(s) |-> toLowerChar(s[i])]

\* String.prototype.includes: sub occurs in s as a contiguous substring
includes(s, sub) ==
  \E i \in 0..(Len(s) - Len(sub)) : SubSeq(s, i + 1, i + Len(sub)) = sub

IsPunctuation(c) == c \in Punctuation

IsWhitespace(c) == c \in Whitespace

\* .replace(/[.\-_]/g, '')
StripPunctuation(s) == SelectSeq(s, LAMBDA c : ~IsPunctuation(c))

RECURSIVE CollapseWhitespace(_)
\* .replace(/\s+/g, ' ')
CollapseWhitespace(s) ==
  IF s = <<>> THEN <<>>
  ELSE IF IsWhitespace(Head(s))
    THEN IF Len(s) > 1 /\ IsWhitespace(s[2])
           THEN CollapseWhitespace(Tail(s))
           ELSE <<" ">> \o CollapseWhitespace(Tail(s))
    ELSE <<Head(s)>> \o CollapseWhitespace(Tail(s))

RECURSIVE TrimStart(_)
TrimStart(s) ==
  IF s # <<>> /\ IsWhitespace(Head(s)) THEN TrimStart(Tail(s)) ELSE s

RECURSIVE TrimEnd(_)
TrimEnd(s) ==
  IF s # <<>> /\ IsWhitespace(s[Len(s)])
    THEN TrimEnd(SubSeq(s, 1, Len(s) - 1))
    ELSE s

\* String.prototype.trim
trim(s) == TrimEnd(TrimStart(s))

\* Normalize skill name for comparison
normalizeSkill(skill) ==
  trim(CollapseWhitespace(StripPunctuation(toLowerCase(skill))))

----------------------------------------------------------------------------
(* The fixed tables of the matcher *)

equivalents ==
  << \* 'javascript': ['js', 'ecmascript', 'es6', 'es2015']
     [main |-> <<"j","a","v","a","s","c","r","i","p","t">>,
      aliases |-> << <<"j","s">>,
                     <<"e","c","m","a","s","c","r","i","p","t">>,
                     <<"e","s","6">>,
                     <<"e","s","2","0","1","5">> >>],
     \* 'typescript': ['ts']
     [main |-> <<"t","y","p","e","s","c","r","i","p","t">>,
      aliases |-> << <<"t","s">> >>],
     \* 'python': ['py', 'python3']
     [main |-> <<"p","y","t","h","o","n">>,
      aliases |-> << <<"p","y">>,
                     <<"p","y","t","h","o","n","3">> >>],
     \* 'nodejs': ['node', 'node js']
     [main |-> <<"n","o","d","e","j","s">>,
      aliases |-> << <<"n","o","d","e">>,
                     <<"n","o","d","e"," ","j","s">> >>],
     \* 'reactjs': ['react', 'reactjs']
     [main |-> <<"r","e","a","c","t","j","s">>,
      aliases |-> << <<"r","e","a","c","t">>,
                     <<"r","e","a","c","t","j","s">> >>],
     \* 'vuejs': ['vue', 'vuejs']
     [main |-> <<"v","u","e","j","s">>,
      aliases |-> << <<"v","u","e">>,
                     <<"v","u","e","j","s">> >>],
     \* 'angularjs': ['angular']
     [main |-> <<"a","n","g","u","l","a","r","j","s">>,
      aliases |-> << <<"a","n","g","u","l","a","r">> >>],
     \* 'postgresql': ['postgres', 'psql']
     [main |-> <<"p","o","s","t","g","r","e","s","q","l">>,
      aliases |-> << <<"p","o","s","t","g","r","e","s">>,
                     <<"p","s","q","l">> >>],
     \* 'mongodb': ['mongo']
     [main |-> <<"m","o","n","g","o","d","b">>,
      aliases |-> << <<"m","o","n","g","o">> >>],
     \* 'kubernetes': ['k8s']
     [main |-> <<"k","u","b","e","r","n","e","t","e","s">>,
      aliases |-> << <<"k","8","s">> >>],
     \* 'amazon web services': ['aws']
     [main |-> <<"a","m","a","z","o","n"," ","w","e","b"," ","s","e","r","v","i","c","e","s">>,
      aliases |-> << <<"a","w","s">> >>],
     \* 'google cloud platform': ['gcp']
     [main |-> <<"g","o","o","g","l","e"," ","c","l","o","u","d"," ","p","l","a","t","f","o","r","m">>,
      aliases |-> << <<"g","c","p">> >>],
     \* 'microsoft azure': ['azure']
     [main |-> <<"m","i","c","r","o","s","o","f","t"," ","a","z","u","r","e">>,
      aliases |-> << <<"a","z","u","r","e">> >>],
     \* 'machine learning': ['ml']
     [main |-> <<"m","a","c","h","i","n","e"," ","l","e","a","r","n","i","n","g">>,
      aliases |-> << <<"m","l">> >>],
     \* 'artificial intelligence': ['ai']
     [main |-> <<"a","r","t","i","f","i","c","i","a","l"," ","i","n","t","e","l","l","i","g","e","n","c","e">>,
      aliases |-> << <<"a","i">> >>],
     \* 'natural language processing': ['nlp']
     [main |-> <<"n","a","t","u","r","a","l"," ","l","a","n","g","u","a","g","e"," ","p","r","o","c","e","s","s","i","n","g">>,
      aliases |-> << <<"n","l","p">> >>],
     \* 'continuous integration': ['ci']
     [main |-> <<"c","o","n","t","i","n","u","o","u","s"," ","i","n","t","e","g","r","a","t","i","o","n">>,
      aliases |-> << <<"c","i">> >>],
     \* 'continuous deployment': ['cd']
     [main |-> <<"c","o","n","t","i","n","u","o","u","s"," ","d","e","p","l","o","y","m","e","n","t">>,
      aliases |-> << <<"c","d">> >>],
     \* 'cicd': ['ci/cd', 'ci cd']
     [main |-> <<"c","i","c","d">>,
      aliases |-> << <<"c","i","/","c","d">>,
                     <<"c","i"," ","c","d">> >>],
     \* 'project management': ['pm', 'project mgmt']
     [main |-> <<"p","r","o","j","e","c","t"," ","m","a","n","a","g","e","m","e","n","t">>,
      aliases |-> << <<"p","m">>,
                     <<"p","r","o","j","e","c","t"," ","m","g","m","t">> >>],
     \* 'user experience': ['ux']
     [main |-> <<"u","s","e","r"," ","e","x","p","e","r","i","e","n","c","e">>,
      aliases |-> << <<"u","x">> >>],
     \* 'user interface': ['ui']
     [main |-> <<"u","s","e","r"," ","i","n","t","e","r","f","a","c","e">>,
      aliases |-> << <<"u","i">> >>],
     \* 'search engine optimization': ['seo']
     [main |-> <<"s","e","a","r","c","h"," ","e","n","g","i","n","e"," ","o","p","t","i","m","i","z","a","t","i","o","n">>,
      aliases |-> << <<"s","e","o">> >>] >>

transferableMap ==
  << \* 'leadership': ['team management', 'management', 'mentoring', 'coaching']
     [category |-> <<"l","e","a","d","e","r","s","h","i","p">>,
      related |-> << <<"t","e","a","m"," ","m","a","n","a","g","e","m","e","n","t">>,
                     <<"m","a","n","a","g","e","m","e","n","t">>,
                     <<"m","e","n","t","o","r","i","n","g">>,
                     <<"c","o","a","c","h","i","n","g">> >>],
     \* 'communication': ['presentation', 'public speaking', 'writing', 'technical writing']
     [category |-> <<"c","o","m","m","u","n","i","c","a","t","i","o","n">>,
      related |-> << <<"p","r","e","s","e","n","t","a","t","i","o","n">>,
                     <<"p","u","b","l","i","c"," ","s","p","e","a","k","i","n","g">>,
                     <<"w","r","i","t","i","n","g">>,
                     <<"t","e","c","h","n","i","c","a","l"," ","w","r","i","t","i","n","g">> >>],
     \* 'problem solving': ['analytical thinking', 'critical thinking', 'debugging', 'troubleshooting']
     [category |-> <<"p","r","o","b","l","e","m"," ","s","o","l","v","i","n","g">>,
      related |-> << <<"a","n","a","l","y","t","i","c","a","l"," ","t","h","i","n","k","i","n","g">>,
                     <<"c","r","i","t","i","c","a","l"," ","t","h","i","n","k","i","n","g">>,
                     <<"d","e","b","u","g","g","i","n","g">>,
                     <<"t","r","o","u","b","l","e","s","h","o","o","t","i","n","g">> >>],
     \* 'programming': ['coding', 'software development', 'development']
     [category |-> <<"p","r","o","g","r","a","m","m","i","n","g">>,
      related |-> << <<"c","o","d","i","n","g">>,
                     <<"s","o","f","t","w","a","r","e"," ","d","e","v","e","l","o","p","m","e","n","t">>,
                     <<"d","e","v","e","l","o","p","m","e","n","t">> >>],
     \* 'data analysis': ['analytics', 'data science', 'statistics', 'excel']
     [category |-> <<"d","a","t","a"," ","a","n","a","l","y","s","i","s">>,
      related |-> << <<"a","n","a","l","y","t","i","c","s">>,
                     <<"d","a","t","a"," ","s","c","i","e","n","c","e">>,
                     <<"s","t","a","t","i","s","t","i","c","s">>,
                     <<"e","x","c","e","l">> >>],
     \* 'design': ['graphic design', 'visual design', 'ui design', 'ux design']
     [category |-> <<"d","e","s","i","g","n">>,
      related |-> << <<"g","r","a","p","h","i","c"," ","d","e","s","i","g","n">>,
                     <<"v","i","s","u","a","l"," ","d","e","s","i","g","n">>,
                     <<"u","i"," ","d","e","s","i","g","n">>,
                     <<"u","x"," ","d","e","s","i","g","n">> >>],
     \* 'marketing': ['digital marketing', 'content marketing', 'social media']
     [category |-> <<"m","a","r","k","e","t","i","n","g">>,
      related |-> << <<"d","i","g","i","t","a","l"," ","m","a","r","k","e","t","i","n","g">>,
                     <<"c","o","n","t","e","n","t"," ","m","a","r","k","e","t","i","n","g">>,
                     <<"s","o","c","i","a","l"," ","m","e","d","i","a">> >>],
     \* 'sales': ['business development', 'account management', 'customer relations']
     [category |-> <<"s","a","l","e","s">>,
      related |-> << <<"b","u","s","i","n","e","s","s"," ","d","e","v","e","l","o","p","m","e","n","t">>,
                     <<"a","c","c","o","u","n","t"," ","m","a","n","a","g","e","m","e","n","t">>,
                     <<"c","u","s","t","o","m","e","r"," ","r","e","l","a","t","i","o","n","s">> >>] >>

\* the qualifier appended to a transferable donor's name
TransferableSuffix == <<" ","(","t","r","a","n","s","f","e","r","a","b","l","e",")">>

----------------------------------------------------------------------------
(* Matcher *)

Min(S) == CHOOSE x \in S : \A y \in S : x <= y

Max(S) == CHOOSE x \in S : \A y \in S : x >= y

\* const allVariants = [main, ...aliases]
allVariants(entry) == <<entry.main>> \o entry.aliases

\* allVariants.some(v => norm.includes(v) || v.includes(norm))
matchesEntry(norm, entry) ==
  \E i \in 1..Len(allVariants(entry)) :
    \/ includes(norm, allVariants(entry)[i])
    \/ includes(allVariants(entry)[i], norm)

\* Check if two skills are similar
areSkillsSimilar(skill1, skill2) ==
  LET norm1 == normalizeSkill(skill1)
      norm2 == normalizeSkill(skill2)
  IN \/ norm1 = norm2
     \/ includes(norm1, norm2)
     \/ includes(norm2, norm1)
     \/ \E e \in 1..Len(equivalents) :
          matchesEntry(norm1, equivalents[e]) /\ matchesEntry(norm2, equivalents[e])

\* norm.includes(category) || related.some(r => norm.includes(r))
inCategory(norm, entry) ==
  \/ includes(norm, entry.category)
  \/ \E r \in 1..Len(entry.related) : includes(norm, entry.related[r])

----------------------------------------------------------------------------
(* Skill names of the model *)

\* "SQL"
N_SQL == <<"S","Q","L">>
\* "sql"
N_sql == <<"s","q","l">>
\* "Leadership"
N_Leadership == <<"L","e","a","d","e","r","s","h","i","p">>
\* "Team Management"
N_TeamManagement == <<"T","e","a","m"," ","M","a","n","a","g","e","m","e","n","t">>
\* "Node"
N_Node == <<"N","o","d","e">>
\* "Node.js"
N_NodeJs == <<"N","o","d","e",".","j","s">>
\* "nodejs"
N_nodejs == <<"n","o","d","e","j","s">>
\* "JS"
N_JS == <<"J","S">>
\* "JavaScript"
N_JavaScript == <<"J","a","v","a","S","c","r","i","p","t">>
\* "Python"
N_Python == <<"P","y","t","h","o","n">>
\* "Mentoring"
N_Mentoring == <<"M","e","n","t","o","r","i","n","g">>
\* "Account Management"
N_AccountManagement == <<"A","c","c","o","u","n","t"," ","M","a","n","a","g","e","m","e","n","t">>
\* "Customer Relations"
N_CustomerRelations == <<"C","u","s","t","o","m","e","r"," ","R","e","l","a","t","i","o","n","s">>

SkillNames ==
  { N_SQL, N_sql, N_Leadership, N_TeamManagement, N_Node, N_NodeJs, N_nodejs,
    N_JS, N_JavaScript, N_Python, N_Mentoring, N_AccountManagement,
    N_CustomerRelations }

\* toLowerCase, normalizeSkill, areSkillsSimilar and inCategory tabulated over
\* the names of the model (each is evaluated once)
lowerTable == [n \in SkillNames |-> toLowerCase(n)]

similarTable ==
  [a \in SkillNames |-> { b \in SkillNames : areSkillsSimilar(a, b) }]

categoryTable ==
  [n \in SkillNames |->
     { c \in 1..Len(transferableMap) : inCategory(normalizeSkill(n), transferableMap[c]) }]

\* name.toLowerCase()
lower(name) == lowerTable[name]

\* areSkillsSimilar(userSkill.skill_name, target.skill_name)
similarTo(userName, targetName) == targetName \in similarTable[userName]

\* normalizeSkill over the names of the model, tabulated
normalizedTable == [n \in SkillNames |-> normalizeSkill(n)]

normalized(name) == normalizedTable[name]

\* the name falls under category c of transferableMap
fallsUnder(name, c) == c \in categoryTable[name]

----------------------------------------------------------------------------
(* Transferable tier *)

\* the search going through the user's skills first: the first user skill, in
\* list order, that shares any category with the target
findTransferableSkillsUserFirst(userSkills, targetSkill) ==
  LET shares(u) ==
        /\ lower(userSkills[u].skill_name) # lower(targetSkill.skill_name)
        /\ \E c \in 1..Len(transferableMap) :
             fallsUnder(targetSkill.skill_name, c) /\ fallsUnder(userSkills[u].skill_name, c)
      hits == { u \in 1..Len(userSkills) : shares(u) }
  IN IF hits = {} THEN <<>>
     ELSE << [requiredSkill |-> targetSkill.skill_name,
              userSkill     |-> userSkills[Min(hits)].skill_name,
              matchType     |-> "transferable",
              confidence    |-> "0.6"] >>

\* Find transferable skills (skills that partially meet requirements):
\* the first category, in table order, that holds the target and some
\* qualifying user skill, and in it the first such user skill; <<>> is null
findTransferableSkills(userSkills, targetSkill) ==
  LET qualifies(c, u) ==
        /\ fallsUnder(userSkills[u].skill_name, c)
        /\ lower(userSkills[u].skill_name) # lower(targetSkill.skill_name)
      hits == { c \in 1..Len(transferableMap) :
                  /\ fallsUnder(targetSkill.skill_name, c)
                  /\ \E u \in 1..Len(userSkills) : qualifies(c, u) }
  IN IF hits = {} THEN <<>>
     ELSE LET c == Min(hits)
              u == Min({ v \in 1..Len(userSkills) : qualifies(c, v) })
          IN << [requiredSkill |-> targetSkill.skill_name,
                 userSkill     |-> userSkills[u].skill_name,
                 matchType     |-> "transferable",
                 confidence    |-> "0.6"] >>

----------------------------------------------------------------------------
(* Gap calculation and readiness (serve handler) *)

\* matchedUserSkill: undefined
Undefined == <<"undefined">>

\* the lookup falling back to 1, the column default of proficiency_level
userSkillMapGetOr1(userSkills, key) ==
  LET rows == { i \in 1..Len(userSkills) : lower(userSkills[i].skill_name) = key }
  IN IF rows = {} THEN 1 ELSE userSkills[Max(rows)].proficiency_level

\* userSkillMap.get(key) || 0, the map being filled in table order so that a
\* later row with the same lower-cased name replaces an earlier one
userSkillMapGet(userSkills, key) ==
  LET rows == { i \in 1..Len(userSkills) : lower(userSkills[i].skill_name) = key }
  IN IF rows = {} THEN 0 ELSE userSkills[Max(rows)].proficiency_level

\* what the similar tier credits once it has found userSkill
similarCredit(userSkill, target) ==
  [currentLevel     |-> userSkill.proficiency_level,
   matchedUserSkill |-> userSkill.skill_name,
   pushed |-> << [requiredSkill |-> target.skill_name,
                  userSkill     |-> userSkill.skill_name,
                  matchType     |-> "similar",
                  confidence    |-> "0.9"] >>]

\* If no exact match, try fuzzy matching: the first similar user skill in
\* table order, tried only when the map lookup gave 0
similarMatch(userSkills, target, exact) ==
  LET similar == { i \in 1..Len(userSkills) :
                     similarTo(userSkills[i].skill_name, target.skill_name) }
  IN IF exact = 0 /\ similar # {}
       THEN similarCredit(userSkills[Min(similar)], target)
       ELSE [currentLevel |-> exact, matchedUserSkill |-> Undefined, pushed |-> <<>>]

\* the donor's level credited in full
transferableCreditInFull(userSkills, fuzzy, transferable) ==
  LET donors == { i \in 1..Len(userSkills) :
                    userSkills[i].skill_name = transferable[1].userSkill }
  IN [currentLevel     |-> userSkills[Min(donors)].proficiency_level,
      matchedUserSkill |-> transferable[1].userSkill \o TransferableSuffix,
      pushed           |-> fuzzy.pushed \o transferable]

\* Give partial credit for transferable skills: Math.floor(level * 0.5) of
\* the row (userSkills || []).find(s => s.skill_name === transferable.userSkill)
transferableCredit(userSkills, fuzzy, transferable) ==
  LET donors == { i \in 1..Len(userSkills) :
                    userSkills[i].skill_name = transferable[1].userSkill }
  IN [currentLevel     |-> userSkills[Min(donors)].proficiency_level \div 2,
      matchedUserSkill |-> transferable[1].userSkill \o TransferableSuffix,
      pushed           |-> fuzzy.pushed \o transferable]

\* If still no match, check for transferable skills
transferableMatch(userSkills, fuzzy, transferable) ==
  IF fuzzy.currentLevel = 0 /\ transferable # <<>>
    THEN transferableCredit(userSkills, fuzzy, transferable)
    ELSE fuzzy

\* the tier cascade of the skillGaps map callback for one target skill:
\* the credited level, matchedUserSkill and the skillMatches it pushes
matchTarget(userSkills, target) ==
  transferableMatch(userSkills,
                    similarMatch(userSkills, target,
                                 userSkillMapGet(userSkills, lower(target.skill_name))),
                    findTransferableSkills(userSkills, target))

\* the SkillGap with the distance between the levels, Math.abs, as its gap
gapRecordAbsolute(target, m) ==
  [skillName        |-> target.skill_name,
   currentLevel     |-> m.currentLevel,
   requiredLevel    |-> target.required_level,
   gap              |-> IF target.required_level - m.currentLevel >= 0
                          THEN target.required_level - m.currentLevel
                          ELSE m.currentLevel - target.required_level,
   priority         |-> target.priority,
   recommendations  |-> <<>>,
   matchedUserSkill |-> m.matchedUserSkill]

\* the SkillGap built from the outcome m of the cascade
gapRecord(target, m) ==
  [skillName        |-> target.skill_name,
   currentLevel     |-> m.currentLevel,
   requiredLevel    |-> target.required_level,
   gap              |-> IF target.required_level - m.currentLevel > 0
                          THEN target.required_level - m.currentLevel ELSE 0,
   priority         |-> target.priority,
   recommendations  |-> <<>>,
   matchedUserSkill |-> m.matchedUserSkill]

\* the SkillGap the map callback returns for one target skill
skillGapOf(userSkills, target) == gapRecord(target, matchTarget(userSkills, target))

priorityOrder(p) ==
  CASE p = "critical" -> 0
    [] p = "high"     -> 1
    [] p = "medium"   -> 2
    [] p = "low"      -> 3

\* the comparator with the smaller gap first
compareGapsSmallestFirst(a, b) ==
  IF priorityOrder(a.priority) # priorityOrder(b.priority)
    THEN priorityOrder(a.priority) - priorityOrder(b.priority)
    ELSE a.gap - b.gap

\* the sort comparator: negative when a goes before b
compareGaps(a, b) ==
  IF priorityOrder(a.priority) # priorityOrder(b.priority)
    THEN priorityOrder(a.priority) - priorityOrder(b.priority)
    ELSE b.gap - a.gap

\* x put after every element of the sorted list that does not go after it
insertGap(sorted, x) ==
  LET later == { j \in 1..Len(sorted) : compareGaps(x, sorted[j]) < 0 }
      k     == IF later = {} THEN Len(sorted) + 1 ELSE Min(later)
  IN SubSeq(sorted, 1, k - 1) \o <<x>> \o SubSeq(sorted, k, Len(sorted))

RECURSIVE sortGaps(_)
\* Array.prototype.sort with compareGaps (a stable sort)
sortGaps(gaps) ==
  IF gaps = <<>> THEN <<>>
  ELSE insertGap(sortGaps(SubSeq(gaps, 1, Len(gaps) - 1)), gaps[Len(gaps)])

\* (targetSkills || []).map(...).filter(gap => gap.gap > 0).sort(...)
skillGapsOf(userSkills, targetSkills) ==
  sortGaps(SelectSeq([i \in 1..Len(targetSkills) |-> skillGapOf(userSkills, targetSkills[i])],
                     LAMBDA g : g.gap > 0))

RECURSIVE skillMatchesOf(_, _)
\* the skillMatches array after the map has run over every target skill
skillMatchesOf(userSkills, targetSkills) ==
  IF targetSkills = <<>> THEN <<>>
  ELSE matchTarget(userSkills, Head(targetSkills)).pushed
         \o skillMatchesOf(userSkills, Tail(targetSkills))

\* the level the readiness loop credits: the map lookup, then the first
\* similar user skill; the loop has no transferable step
readinessLevel(userSkills, target) ==
  similarMatch(userSkills, target,
               userSkillMapGet(userSkills, lower(target.skill_name))).currentLevel

\* the credit left uncapped
minLevelUncapped(current, required) == current

\* Math.min(current, target.required_level)
minLevel(current, required) == IF current < required THEN current ELSE required

RECURSIVE totalRequired(_)
totalRequired(targetSkills) ==
  IF targetSkills = <<>> THEN 0
  ELSE Head(targetSkills).required_level + totalRequired(Tail(targetSkills))

RECURSIVE totalAchieved(_, _)
totalAchieved(userSkills, targetSkills) ==
  IF targetSkills = <<>> THEN 0
  ELSE minLevel(readinessLevel(userSkills, Head(targetSkills)),
                Head(targetSkills).required_level)
         + totalAchieved(userSkills, Tail(targetSkills))

\* Math.round((achieved / required) * 100) in IEEE doubles: round half up of
\* the quotient, except that (23 / 40) * 100 evaluates to 57.49999999999999
\* (the only such pair with required <= 60)
roundPercent(achieved, required) ==
  IF achieved = 23 /\ required = 40 THEN 57
  ELSE (200 * achieved + required) \div (2 * required)

\* totalRequired > 0 ? Math.round((totalAchieved / totalRequired) * 100) : 0
readinessOf(achieved, required) ==
  IF required > 0 THEN roundPercent(achieved, required) ELSE 0

\* Calculate overall readiness
overallReadinessOf(userSkills, targetSkills) ==
  readinessOf(totalAchieved(userSkills, targetSkills), totalRequired(targetSkills))

----------------------------------------------------------------------------
(* The tables of migration 002 *)

\* the authenticated caller and the roadmap of the request
Caller == "u1"

Roadmap == "r1"

\* another user and a roadmap of theirs
OtherUser == "u2"

OtherRoadmap == "r2"

\* table roadmaps (id, user_id): whose roadmap each one is
roadmaps ==
  << [id |-> Roadmap, user_id |-> Caller], [id |-> OtherRoadmap, user_id |-> OtherUser] >>

\* a CHECK that admits the level 0 of an unrated skill
ProficiencyCheckFrom0(level) == level >= 0 /\ level <= 5

\* user_skills: CHECK (proficiency_level BETWEEN 1 AND 5)
ProficiencyCheck(level) == level >= 1 /\ level <= 5

\* target_role_skills: CHECK (required_level BETWEEN 1 AND 5)
RequiredLevelCheck(level) == level >= 1 /\ level <= 5

\* target_role_skills: CHECK (priority IN ('critical', 'high', 'medium', 'low'))
Priorities == {"critical", "high", "medium", "low"}

\* skill_gap_analysis: CHECK (overall_readiness BETWEEN 0 AND 100)
ReadinessCheck(r) == r >= 0 /\ r <= 100

\* the column lists that carry a UNIQUE constraint, table by table
UserSkillsUnique == { <<"user_id", "skill_name">> }

TargetRoleSkillsUnique == { <<"roadmap_id", "skill_name">> }

\* CREATE TABLE skill_gap_analysis declares no UNIQUE constraint: its only
\* key is the PRIMARY KEY id
SkillGapAnalysisUnique == {}

\* two rows agree on every column of a key
sameKey(a, b, columns) == \A c \in columns : a[c] = b[c]

\* no two rows of the sequence have the same key
distinctOn(rows, columns) ==
  \A i, j \in 1..Len(rows) : i # j => ~sameKey(rows[i], rows[j], columns)

\* .from('target_role_skills').insert(rows).select(): one INSERT statement;
\* data is the inserted rows, or null (<<>>) when a constraint rejects it
insertTargetRoleSkills(table, rows) ==
  IF /\ \A i \in 1..Len(rows) :
          RequiredLevelCheck(rows[i].required_level) /\ rows[i].priority \in Priorities
     /\ distinctOn(table \o rows, {"roadmap_id", "skill_name"})
    THEN [table |-> table \o rows, data |-> rows]
    ELSE [table |-> table, data |-> <<>>]

RECURSIVE mergeRows(_, _, _)
\* INSERT ... ON CONFLICT (key) DO UPDATE: a row whose key is in the table
\* replaces that row in place, any other row is appended
mergeRows(table, rows, columns) ==
  IF rows = <<>> THEN table
  ELSE LET row == Head(rows)
           hit == { i \in 1..Len(table) : sameKey(table[i], row, columns) }
           merged == IF hit = {} THEN Append(table, row)
                     ELSE [i \in 1..Len(table) |-> IF i \in hit THEN row ELSE table[i]]
       IN mergeRows(merged, Tail(rows), columns)

\* .from('user_skills').upsert(rows, { onConflict: 'user_id,skill_name' }):
\* one statement, rejected as a whole when a row fails the CHECK or when two
\* of its rows have the same key
upsertUserSkills(table, rows) ==
  IF /\ <<"user_id", "skill_name">> \in UserSkillsUnique
     /\ \A i \in 1..Len(rows) : ProficiencyCheck(rows[i].proficiency_level)
     /\ distinctOn(rows, {"user_id", "skill_name"})
    THEN mergeRows(table, rows, {"user_id", "skill_name"})
    ELSE table

\* .from('skill_gap_analysis').upsert(row, { onConflict: 'roadmap_id,user_id' })
\* .select().single(): the statement needs a unique constraint on the conflict
\* columns; data is the stored row, or null (<<>>) with analysisError set
upsertSkillGapAnalysis(table, row, storeOk) ==
  IF /\ storeOk
     /\ <<"roadmap_id", "user_id">> \in SkillGapAnalysisUnique
     /\ ReadinessCheck(row.overall_readiness)
    THEN [table |-> mergeRows(table, <<row>>, {"roadmap_id", "user_id"}), data |-> <<row>>]
    ELSE [table |-> table, data |-> <<>>]

----------------------------------------------------------------------------
(* Inputs of a request: the answers of the collaborators *)

\* the clock values the model runs through
MaxClock == 2

\* what stops the handler before its first write: a missing environment
\* variable, no Authorization header, a token getUser rejects, a body without
\* roadmapId or targetCareer, a failed read of either table
Faults ==
  { "none", "noenv", "noauth", "badtoken", "badbody",
    "userSkillsError", "targetSkillsError" }

errorMessage(fault) ==
  CASE fault = "noenv"             -> "Supabase credentials not configured"
    [] fault = "noauth"            -> "Authorization header required"
    [] fault = "badtoken"          -> "Invalid authorization token"
    [] fault = "badbody"           -> "roadmapId and targetCareer are required"
    [] fault = "userSkillsError"   -> "Failed to fetch user skills"
    [] fault = "targetSkillsError" -> "Failed to fetch target skills"

\* the skill lists the generation service may answer with
GeneratedLists ==
  { << [skillName |-> N_Python, requiredLevel |-> 5, priority |-> "critical"] >>,
    << [skillName |-> N_SQL, requiredLevel |-> 4, priority |-> "critical"],
       [skillName |-> N_Leadership, requiredLevel |-> 3, priority |-> "high"] >>,
    << [skillName |-> N_Leadership, requiredLevel |-> 7, priority |-> "urgent"] >>,
    << [skillName |-> N_SQL, requiredLevel |-> 0, priority |-> "high"],
       [skillName |-> N_SQL, requiredLevel |-> 2, priority |-> "low"] >> }

\* the answer of the requirement generation: a non-OK status, a rejected
\* fetch or an answer without choices[0].message (thrown outside the inner
\* try), content JSON.parse or .skills.map rejects, or a parsed skill list
GenerationAnswers ==
  { [kind |-> k, skills |-> <<>>] : k \in {"notok", "throws", "unparsable"} }
    \cup { [kind |-> "ok", skills |-> l] : l \in GeneratedLists }

\* the four recommendations of the inner catch
fallbackRecommendations ==
  << "Focus on the highest priority skill gaps first",
     "Consider online courses and certifications",
     "Practice through hands-on projects",
     "Join communities and network with professionals in the field" >>

\* the answer of the recommendation generator, likewise; skillRecommendations
\* maps skill names to lists (the empty map when the key is absent)
RecommendationAnswers ==
  { [kind |-> k, recommendations |-> <<>>, skillRecommendations |-> <<>>] :
      k \in {"notok", "throws", "unparsable"} }
    \cup { [kind |-> "ok", recommendations |-> <<"Take a course">>,
            skillRecommendations |-> [n \in {N_SQL} |-> <<"Practice queries">>]],
           [kind |-> "ok", recommendations |-> <<"Find a mentor">>,
            skillRecommendations |-> [n \in {N_sql, N_Leadership} |-> <<"Lead a project">>]],
           [kind |-> "ok", recommendations |-> <<>>, skillRecommendations |-> <<>>] }

----------------------------------------------------------------------------
(* serve handler *)

\* Math.min(5, Math.max(1, skill.requiredLevel || 3))
clampLevel(requiredLevel) ==
  LET level == IF requiredLevel = 0 THEN 3 ELSE requiredLevel
      atLeast1 == IF level < 1 THEN 1 ELSE level
  IN IF atLeast1 > 5 THEN 5 ELSE atLeast1

\* parsedSkills.skills.map(...)
skillsToInsert(roadmapId, skills) ==
  [i \in 1..Len(skills) |->
     [roadmap_id     |-> roadmapId,
      skill_name     |-> skills[i].skillName,
      required_level |-> clampLevel(skills[i].requiredLevel),
      priority       |-> IF skills[i].priority \in {"critical", "high", "medium", "low"}
                           THEN skills[i].priority ELSE "medium"]]

\* Auto-add required skills to user_skills (with level 0 = needs rating)
skillsToAdd(userId, userSkills, targetSkills) ==
  LET existingSkillNames == { lower(userSkills[i].skill_name) : i \in 1..Len(userSkills) }
      missing == SelectSeq(targetSkills, LAMBDA ts : lower(ts.skill_name) \notin existingSkillNames)
  IN [i \in 1..Len(missing) |->
        [user_id           |-> userId,
         skill_name        |-> missing[i].skill_name,
         proficiency_level |-> 0,
         source            |-> "role_requirement"]]

\* the lookup by the lower-cased name of the gap
withSkillRecommendationsAnyCase(skillGaps, skillRecommendations) ==
  [i \in 1..Len(skillGaps) |->
     IF \E k \in DOMAIN skillRecommendations : lower(k) = lower(skillGaps[i].skillName)
       THEN [skillGaps[i] EXCEPT !.recommendations =
               skillRecommendations[CHOOSE k \in DOMAIN skillRecommendations :
                                      lower(k) = lower(skillGaps[i].skillName)]]
       ELSE skillGaps[i]]

\* Add skill-specific recommendations: exact lookup by gap.skillName
withSkillRecommendations(skillGaps, skillRecommendations) ==
  [i \in 1..Len(skillGaps) |->
     IF skillGaps[i].skillName \in DOMAIN skillRecommendations
       THEN [skillGaps[i] EXCEPT !.recommendations = skillRecommendations[skillGaps[i].skillName]]
       ELSE skillGaps[i]]

\* the role-level recommendations and the gaps after the recommendation
\* request, which is made only when there is a gap
recommend(skillGaps, rec) ==
  IF skillGaps = <<>> \/ rec.kind = "notok"
    THEN [recommendations |-> <<>>, skillGaps |-> skillGaps]
  ELSE IF rec.kind = "unparsable"
    THEN [recommendations |-> fallbackRecommendations, skillGaps |-> skillGaps]
  ELSE [recommendations |-> rec.recommendations,
        skillGaps |-> withSkillRecommendations(skillGaps, rec.skillRecommendations)]

\* the catch block: status 500 carrying error.message
errorResponse(message) ==
  [status |-> 500, error |-> message, analysis |-> <<>>, skillMatches |-> <<>>]

\* the rows of a table the handler selects
rowsOfUser(table, userId) == SelectSeq(table, LAMBDA r : r.user_id = userId)

rowsOfRoadmap(table, roadmapId) == SelectSeq(table, LAMBDA r : r.roadmap_id = roadmapId)

\* the handler ends in the catch block; the writes made so far stay
thrown(userTable, targetTable, message) ==
  [user_skills |-> userTable, target_role_skills |-> targetTable,
   skill_gap_analysis |-> skill_gap_analysis, api_usage |-> api_usage,
   response |-> errorResponse(message)]

\* the row handed to the upsert of skill_gap_analysis
analysisRow(userId, roadmapId, overallReadiness, recd, skillMatches) ==
  [roadmap_id |-> roadmapId,
   user_id |-> userId,
   overall_readiness |-> overallReadiness,
   critical_gaps |-> recd.skillGaps,
   recommendations |-> recd.recommendations,
   milestone_skill_mapping |-> [skillMatches |-> skillMatches],
   analyzed_at |-> now]

\* Track API usage, then answer 200 with analysis || { ...the computed row }:
\* analysisError is logged and nothing else
answer(userId, roadmapId, userTable, targetTable, skillMatches, row, saved) ==
  [user_skills |-> userTable,
   target_role_skills |-> targetTable,
   skill_gap_analysis |-> saved.table,
   api_usage |-> Append(api_usage,
                        [user_id |-> userId, operation |-> "analyze_gaps",
                         credits_used |-> 1, roadmap_id |-> roadmapId]),
   response |-> [status |-> 200,
                 error |-> "",
                 analysis |-> IF saved.data # <<>> THEN saved.data ELSE <<row>>,
                 skillMatches |-> skillMatches]]

\* Save analysis to database
save(userId, roadmapId, userTable, targetTable, skillMatches, row, storeOk) ==
  answer(userId, roadmapId, userTable, targetTable, skillMatches, row,
         upsertSkillGapAnalysis(skill_gap_analysis, row, storeOk))

\* Get AI recommendations for top gaps: a rejected fetch or an answer without
\* choices[0].message throws outside the inner try
advise(userId, roadmapId, userTable, targetTable, skillMatches, gaps, overallReadiness, rec, storeOk) ==
  IF gaps # <<>> /\ rec.kind = "throws"
    THEN thrown(userTable, targetTable, "fetch failed")
    ELSE save(userId, roadmapId, userTable, targetTable, skillMatches,
              analysisRow(userId, roadmapId, overallReadiness, recommend(gaps, rec),
                          skillMatches),
              storeOk)

\* if (skillsToAdd.length > 0) await upsert(skillsToAdd): its error is not read
autoAdd(rows) == IF rows # <<>> THEN upsertUserSkills(user_skills, rows) ELSE user_skills

\* auto-add, gaps and readiness from the userSkills array read at the start
analyze(userId, roadmapId, userSkills, targetSkills, targetTable, rec, storeOk) ==
  advise(userId, roadmapId,
         autoAdd(skillsToAdd(userId, userSkills, targetSkills)),
         targetTable,
         skillMatchesOf(userSkills, targetSkills),
         skillGapsOf(userSkills, targetSkills),
         overallReadinessOf(userSkills, targetSkills),
         rec, storeOk)

\* targetSkills = insertedSkills || []
analyzeInserted(userId, roadmapId, userSkills, inserted, rec, storeOk) ==
  analyze(userId, roadmapId, userSkills, inserted.data, inserted.table, rec, storeOk)

\* If no target skills exist, generate them using AI; a non-OK answer or a
\* failure inside the inner try leaves targetSkills empty and goes on
generate(userId, roadmapId, userSkills, stored, gen, rec, storeOk) ==
  IF stored # <<>>
    THEN analyze(userId, roadmapId, userSkills, stored, target_role_skills, rec, storeOk)
  ELSE IF gen.kind = "throws"
    THEN thrown(user_skills, target_role_skills, "fetch failed")
  ELSE IF gen.kind = "ok"
    THEN analyzeInserted(userId, roadmapId, userSkills,
                         insertTargetRoleSkills(target_role_skills,
                                                skillsToInsert(roadmapId, gen.skills)),
                         rec, storeOk)
  ELSE analyze(userId, roadmapId, userSkills, <<>>, target_role_skills, rec, storeOk)

\* the whole handler for one POST: the tables and the response it leaves
serve(userId, roadmapId, fault, gen, rec, storeOk) ==
  IF fault # "none"
    THEN thrown(user_skills, target_role_skills, errorMessage(fault))
    ELSE generate(userId, roadmapId,
                  rowsOfUser(user_skills, userId),
                  rowsOfRoadmap(target_role_skills, roadmapId),
                  gen, rec, storeOk)

\* POST analyze-skill-gaps by the caller with roadmapId in the body
Recompute(roadmapId, fault, gen, rec, storeOk) ==
  /\ now < MaxClock
  /\ LET out == serve(Caller, roadmapId, fault, gen, rec, storeOk)
     IN /\ user_skills' = out.user_skills
        /\ target_role_skills' = out.target_role_skills
        /\ skill_gap_analysis' = out.skill_gap_analysis
        /\ api_usage' = out.api_usage
        /\ response' = out.response
  /\ now' = now + 1
  /\ lastOp' = [op |-> "recompute", roadmapId |-> roadmapId, fault |-> fault,
                gen |-> gen.kind, rec |-> rec, storeOk |-> storeOk]
  /\ UNCHANGED <<requests, skillGapAnalysis>>

----------------------------------------------------------------------------
(* The system: the tables as the user and the role provider left them *)

userSkillRow(name, level) ==
  [user_id |-> Caller, skill_name |-> name, proficiency_level |-> level, source |-> "manual"]

targetSkillRow(name, level, priority) ==
  [roadmap_id |-> Roadmap, skill_name |-> name, required_level |-> level, priority |-> priority]

\* skill profiles the user has entered (levels 1..5, as the table admits)
UserProfiles ==
  { <<>>,
    << userSkillRow(N_sql, 2), userSkillRow(N_TeamManagement, 4) >>,
    << userSkillRow(N_Node, 1), userSkillRow(N_NodeJs, 5) >>,
    << userSkillRow(N_TeamManagement, 4) >>,
    << userSkillRow(N_SQL, 5), userSkillRow(N_Leadership, 3) >>,
    << userSkillRow(N_JS, 3), userSkillRow(N_Python, 1) >> }

\* requirement lists supplied for the role (none: generated on first request)
RoleRequirements ==
  { <<>>,
    << targetSkillRow(N_SQL, 4, "critical"), targetSkillRow(N_Leadership, 3, "high") >>,
    << targetSkillRow(N_nodejs, 3, "medium") >>,
    << targetSkillRow(N_Leadership, 2, "high") >>,
    << targetSkillRow(N_JavaScript, 3, "low"), targetSkillRow(N_Python, 5, "critical") >> }

\* the invocations of the edge function that may overlap
Requests == {"a", "b"}

\* an invocation that has not reached the function yet
notStarted ==
  [pc |-> "start", userSkills |-> <<>>, targetSkills |-> <<>>,
   analysis |-> <<>>, row |-> <<>>, response |-> <<>>]

Init ==
  /\ user_skills \in UserProfiles
  /\ target_role_skills \in RoleRequirements
  /\ skill_gap_analysis = <<>>
  /\ api_usage = <<>>
  /\ response = [status |-> 0, error |-> "", analysis |-> <<>>, skillMatches |-> <<>>]
  /\ now = 0
  /\ lastOp = [op |-> "none"]
  /\ requests = [p \in Requests |-> notStarted]
  /\ skillGapAnalysis = <<>>

\* a collaborator that is not asked gives no answer
NotAsked == [kind |-> "notok", skills |-> <<>>]

NoRecommendation ==
  [kind |-> "notok", recommendations |-> <<>>, skillRecommendations |-> <<>>]

\* the generation service is asked only for a role without stored skills
GenerationAsked ==
  IF rowsOfRoadmap(target_role_skills, Roadmap) = <<>>
    THEN GenerationAnswers ELSE {NotAsked}

Next ==
  \/ \E fault \in Faults \ {"none"} :
       Recompute(Roadmap, fault, NotAsked, NoRecommendation, TRUE)
  \/ \E gen \in GenerationAsked, rec \in RecommendationAnswers, storeOk \in BOOLEAN :
       Recompute(Roadmap, "none", gen, rec, storeOk)

Spec == Init /\ [][Next]_vars

\* the roadmap ids a caller may put in the body
RoadmapIds == { roadmaps[i].id : i \in 1..Len(roadmaps) }

\* the generation service is asked when the roadmap of the body has no
\* stored skills
GenerationAskedFor(roadmapId) ==
  IF rowsOfRoadmap(target_role_skills, roadmapId) = <<>>
    THEN GenerationAnswers ELSE {NotAsked}

\* requests of the caller for any roadmap id
AnyRoadmapNext ==
  \/ \E roadmapId \in RoadmapIds, fault \in {"noauth", "badtoken", "badbody"} :
       Recompute(roadmapId, fault, NotAsked, NoRecommendation, TRUE)
  \/ \E roadmapId \in RoadmapIds :
       \E gen \in GenerationAskedFor(roadmapId), storeOk \in BOOLEAN :
         Recompute(roadmapId, "none", gen, NoRecommendation, storeOk)

SpecAnyRoadmap == Init /\ [][AnyRoadmapNext]_vars

----------------------------------------------------------------------------
(* The calculation alone: gaps, matches and readiness as a function of the *)
(* userSkills and targetSkills arrays                                      *)

\* the levels a skill row may carry in the engine's contract
ProficiencyLevels == 0..5

RequiredLevels == 1..5

CalcUserNames ==
  { <<>>, <<N_sql>>, <<N_TeamManagement>>, <<N_sql, N_TeamManagement>>,
    <<N_Node, N_NodeJs>>, <<N_JS, N_Python>>, <<N_Leadership, N_Mentoring>>,
    <<N_CustomerRelations, N_Mentoring>> }

CalcTargetNames ==
  { <<>>, <<N_SQL>>, <<N_Leadership>>, <<N_nodejs>>,
    <<N_SQL, N_Leadership>>, <<N_JavaScript, N_Python>>, <<N_AccountManagement>> }

CalcPriorities == {"critical", "high", "medium", "low"}

CalcUserSkills ==
  UNION { { [i \in 1..Len(names) |-> userSkillRow(names[i], levels[i])] :
              levels \in [1..Len(names) -> ProficiencyLevels] } :
          names \in CalcUserNames }

CalcTargetSkills ==
  UNION { { [i \in 1..Len(names) |-> targetSkillRow(names[i], levels[i], priorities[i])] :
              levels \in [1..Len(names) -> RequiredLevels],
              priorities \in [1..Len(names) -> CalcPriorities] } :
          names \in CalcTargetNames }

CalcInit ==
  /\ user_skills \in CalcUserSkills
  /\ target_role_skills \in CalcTargetSkills
  /\ skill_gap_analysis = <<>>
  /\ api_usage = <<>>
  /\ response = [status |-> 0, error |-> "", analysis |-> <<>>, skillMatches |-> <<>>]
  /\ now = 0
  /\ lastOp = [op |-> "none"]
  /\ requests = [p \in Requests |-> notStarted]
  /\ skillGapAnalysis = <<>>

\* the computation of the handler between its reads and its requests
Calculate ==
  /\ lastOp.op = "none"
  /\ response' =
       [status |-> 200,
        error |-> "",
        analysis |-> << analysisRow(Caller, Roadmap,
                                    overallReadinessOf(user_skills, target_role_skills),
                                    recommend(skillGapsOf(user_skills, target_role_skills),
                                              NoRecommendation),
                                    skillMatchesOf(user_skills, target_role_skills)) >>,
        skillMatches |-> skillMatchesOf(user_skills, target_role_skills)]
  /\ lastOp' = [op |-> "calculate"]
  /\ UNCHANGED <<user_skills, target_role_skills, skill_gap_analysis, api_usage, now>>
  /\ UNCHANGED <<requests, skillGapAnalysis>>

CalcNext == Calculate

SpecCalc == CalcInit /\ [][CalcNext]_vars

----------------------------------------------------------------------------
(* HELPER FUNCTION: Calculate skill readiness (migration 002) *)

\* LEAST(us.proficiency_level, trs.required_level): a NULL argument is
\* ignored; the level of the joined row is <<>> when it is NULL
least(proficiency_level, required_level) ==
  IF proficiency_level = <<>> THEN required_level
  ELSE IF proficiency_level[1] < required_level THEN proficiency_level[1]
  ELSE required_level

\* target_role_skills trs LEFT JOIN user_skills us ON LOWER(us.skill_name) =
\* LOWER(trs.skill_name) AND us.user_id = target_user_id: the levels of the
\* rows joined to one trs row, a single NULL when no user row matches
leftJoin(trs, userTable, target_user_id) ==
  LET matching == SelectSeq(userTable,
                            LAMBDA us : /\ lower(us.skill_name) = lower(trs.skill_name)
                                        /\ us.user_id = target_user_id)
  IN IF matching = <<>> THEN << <<>> >>
     ELSE [i \in 1..Len(matching) |-> << matching[i].proficiency_level >>]

RECURSIVE sumLeast(_, _)
\* SUM(LEAST(...)) over the rows joined to one trs row
sumLeast(levels, required_level) ==
  IF levels = <<>> THEN 0
  ELSE least(Head(levels), required_level) + sumLeast(Tail(levels), required_level)

RECURSIVE achievedPoints(_, _, _)
\* Get achieved skill points (capped at required level)
achievedPoints(targetRows, userTable, target_user_id) ==
  IF targetRows = <<>> THEN 0
  ELSE sumLeast(leftJoin(Head(targetRows), userTable, target_user_id),
                Head(targetRows).required_level)
         + achievedPoints(Tail(targetRows), userTable, target_user_id)

\* ROUND((achieved_points::DECIMAL / total_required_points) * 100): numeric
\* arithmetic, a half is rounded away from zero
roundNumeric(achieved_points, total_required_points) ==
  (200 * achieved_points + total_required_points) \div (2 * total_required_points)

\* calculate_skill_readiness(target_roadmap_id, target_user_id)
calculate_skill_readiness(target_roadmap_id, target_user_id) ==
  LET total_required_points == totalRequired(rowsOfRoadmap(target_role_skills, target_roadmap_id))
      achieved_points == achievedPoints(rowsOfRoadmap(target_role_skills, target_roadmap_id),
                                        user_skills, target_user_id)
  IN IF total_required_points > 0
       THEN roundNumeric(achieved_points, total_required_points)
       ELSE 0

\* SELECT calculate_skill_readiness(roadmap, user) over the tables as they are
CalculateSkillReadiness ==
  /\ lastOp.op = "none"
  /\ lastOp' = [op |-> "calculate_skill_readiness",
                readiness |-> calculate_skill_readiness(Roadmap, Caller)]
  /\ UNCHANGED <<user_skills, target_role_skills, skill_gap_analysis, api_usage,
                 response, now, requests, skillGapAnalysis>>

HelperNext == CalculateSkillReadiness

SpecHelper == CalcInit /\ [][HelperNext]_vars

----------------------------------------------------------------------------
(* The app: invocations of the edge function that overlap, one statement of *)
(* the handler at a time, and the pages that write and read the tables     *)

\* the invocation p ends in the catch block
caught(p, message) ==
  [requests EXCEPT ![p].pc = "done", ![p].response = <<errorResponse(message)>>]

\* the checks of the environment, the token and the body, then
\* Get user's current skills
ReadUserSkills(p, fault) ==
  /\ requests[p].pc = "start"
  /\ fault # "targetSkillsError"
  /\ requests' = IF fault # "none"
                   THEN caught(p, errorMessage(fault))
                   ELSE [requests EXCEPT ![p].pc = "readTargetSkills",
                                         ![p].userSkills = rowsOfUser(user_skills, Caller)]
  /\ lastOp' = [op |-> "readUserSkills", request |-> p]
  /\ UNCHANGED <<user_skills, target_role_skills, skill_gap_analysis, api_usage,
                 response, now, skillGapAnalysis>>

\* Get target role skills
ReadTargetSkills(p, fault) ==
  /\ requests[p].pc = "readTargetSkills"
  /\ fault \in {"none", "targetSkillsError"}
  /\ requests' = IF fault # "none"
                   THEN caught(p, errorMessage(fault))
                   ELSE [requests EXCEPT ![p].pc = "generate",
                                         ![p].targetSkills =
                                            rowsOfRoadmap(target_role_skills, Roadmap)]
  /\ lastOp' = [op |-> "readTargetSkills", request |-> p]
  /\ UNCHANGED <<user_skills, target_role_skills, skill_gap_analysis, api_usage,
                 response, now, skillGapAnalysis>>

\* the target skills of the invocation after the insert of the generated list
generated(p, inserted) ==
  [requests EXCEPT ![p].pc = "autoAdd", ![p].targetSkills = inserted.data]

\* If no target skills exist, generate them using AI (the request to the
\* generation service and the insert of its list)
Generate(p, gen) ==
  /\ requests[p].pc = "generate"
  /\ IF requests[p].targetSkills # <<>>
       THEN /\ gen = NotAsked
            /\ requests' = [requests EXCEPT ![p].pc = "autoAdd"]
            /\ target_role_skills' = target_role_skills
     ELSE IF gen.kind = "throws"
       THEN /\ requests' = caught(p, "fetch failed")
            /\ target_role_skills' = target_role_skills
     ELSE IF gen.kind = "ok"
       THEN /\ requests' = generated(p, insertTargetRoleSkills(target_role_skills,
                                           skillsToInsert(Roadmap, gen.skills)))
            /\ target_role_skills' = insertTargetRoleSkills(target_role_skills,
                                        skillsToInsert(Roadmap, gen.skills)).table
     ELSE /\ requests' = [requests EXCEPT ![p].pc = "autoAdd"]
          /\ target_role_skills' = target_role_skills
  /\ lastOp' = [op |-> "generate", request |-> p, gen |-> gen.kind]
  /\ UNCHANGED <<user_skills, skill_gap_analysis, api_usage, response, now,
                 skillGapAnalysis>>

\* Auto-add required skills to user_skills: the rows are made from the
\* userSkills array read at the start, the upsert meets the table as it is now
AutoAdd(p) ==
  /\ requests[p].pc = "autoAdd"
  /\ user_skills' = autoAdd(skillsToAdd(Caller, requests[p].userSkills,
                                         requests[p].targetSkills))
  /\ requests' = [requests EXCEPT ![p].pc = "save"]
  /\ lastOp' = [op |-> "autoAdd", request |-> p]
  /\ UNCHANGED <<target_role_skills, skill_gap_analysis, api_usage, response, now,
                 skillGapAnalysis>>

\* the row the invocation p computes from its arrays
computed(p, rec) ==
  analysisRow(Caller, Roadmap,
              overallReadinessOf(requests[p].userSkills, requests[p].targetSkills),
              recommend(skillGapsOf(requests[p].userSkills, requests[p].targetSkills), rec),
              skillMatchesOf(requests[p].userSkills, requests[p].targetSkills))

\* the invocation after its upsert: row is what it computed, analysis is
\* what the response will carry (analysis || { ...row })
upserted(p, row, saved) ==
  [requests EXCEPT ![p].pc = "track",
                   ![p].row = <<row>>,
                   ![p].analysis = IF saved.data # <<>> THEN saved.data ELSE <<row>>]

\* gaps, readiness, the request to the recommendation generator and
\* Save analysis to database
Save(p, rec, storeOk) ==
  /\ requests[p].pc = "save"
  /\ IF /\ skillGapsOf(requests[p].userSkills, requests[p].targetSkills) # <<>>
        /\ rec.kind = "throws"
       THEN /\ requests' = caught(p, "fetch failed")
            /\ skill_gap_analysis' = skill_gap_analysis
       ELSE /\ requests' = upserted(p, computed(p, rec),
                                    upsertSkillGapAnalysis(skill_gap_analysis,
                                                           computed(p, rec), storeOk))
            /\ skill_gap_analysis' = upsertSkillGapAnalysis(skill_gap_analysis,
                                                            computed(p, rec), storeOk).table
  /\ lastOp' = [op |-> "save", request |-> p, storeOk |-> storeOk]
  /\ UNCHANGED <<user_skills, target_role_skills, api_usage, response, now,
                 skillGapAnalysis>>

\* Track API usage and answer 200
TrackUsage(p) ==
  /\ requests[p].pc = "track"
  /\ api_usage' = Append(api_usage,
                         [user_id |-> Caller, operation |-> "analyze_gaps",
                          credits_used |-> 1, roadmap_id |-> Roadmap])
  /\ requests' = [requests EXCEPT
                    ![p].pc = "done",
                    ![p].response =
                       << [status |-> 200, error |-> "",
                           analysis |-> requests[p].analysis,
                           skillMatches |-> skillMatchesOf(requests[p].userSkills,
                                                           requests[p].targetSkills)] >>]
  /\ lastOp' = [op |-> "trackUsage", request |-> p]
  /\ UNCHANGED <<user_skills, target_role_skills, skill_gap_analysis, response, now,
                 skillGapAnalysis>>

\* .from('user_skills').insert(row).select().single(): rejected by the CHECK
\* or, with code 23505, by UNIQUE(user_id, skill_name)
insertUserSkill(table, row) ==
  IF /\ ProficiencyCheck(row.proficiency_level)
     /\ distinctOn(Append(table, row), {"user_id", "skill_name"})
    THEN Append(table, row)
    ELSE table

\* Skills page, handleAddSkill: on 23505 an alert, nothing written
AddSkill(skillName, proficiencyLevel) ==
  /\ now < MaxClock
  /\ user_skills' = insertUserSkill(user_skills,
                                    [user_id |-> Caller, skill_name |-> skillName,
                                     proficiency_level |-> proficiencyLevel,
                                     source |-> "manual"])
  /\ now' = now + 1
  /\ lastOp' = [op |-> "addSkill", skillName |-> skillName,
                proficiencyLevel |-> proficiencyLevel]
  /\ UNCHANGED <<target_role_skills, skill_gap_analysis, api_usage, response,
                 requests, skillGapAnalysis>>

\* Skills page, handleUpdateSkill: .update({ proficiency_level }).eq('id', skillId)
UpdateSkill(skillId, proficiencyLevel) ==
  /\ now < MaxClock
  /\ skillId \in 1..Len(user_skills)
  /\ user_skills' = IF ProficiencyCheck(proficiencyLevel)
                      THEN [user_skills EXCEPT
                              ![skillId].proficiency_level = proficiencyLevel]
                      ELSE user_skills
  /\ now' = now + 1
  /\ lastOp' = [op |-> "updateSkill"]
  /\ UNCHANGED <<target_role_skills, skill_gap_analysis, api_usage, response,
                 requests, skillGapAnalysis>>

\* handleSaveAndContinue: Save all rated skills to user_skills
skillsToSave(targetSkills, ratings) ==
  LET rated == SelectSeq(targetSkills, LAMBDA ts : ratings[ts.skill_name] > 0)
  IN [i \in 1..Len(rated) |->
        [user_id |-> Caller, skill_name |-> rated[i].skill_name,
         proficiency_level |-> ratings[rated[i].skill_name],
         source |-> "self_assessment"]]

\* handleSaveAndContinue: Also save unrated skills with level 0
unratedSkills(targetSkills, ratings) ==
  LET unrated == SelectSeq(targetSkills, LAMBDA ts : ratings[ts.skill_name] = 0)
  IN [i \in 1..Len(unrated) |->
        [user_id |-> Caller, skill_name |-> unrated[i].skill_name,
         proficiency_level |-> 0,
         source |-> "role_requirement"]]

\* .upsert(rows, { onConflict: 'user_id,skill_name' }) when rows.length > 0
upsertIfAny(table, rows) == IF rows # <<>> THEN upsertUserSkills(table, rows) ELSE table

\* the ratings the Rate Required Skills page may hold for the role's skills
RatingChoices == {0, 4}

Ratings ==
  [ { target_role_skills[t].skill_name : t \in 1..Len(target_role_skills) }
      -> RatingChoices ]

\* Rate Required Skills page, handleSaveAndContinue: the two upserts; the
\* invocation of analyze-skill-gaps that follows is one of the requests
SaveRatings(ratings) ==
  /\ now < MaxClock
  /\ target_role_skills # <<>>
  /\ user_skills' = upsertIfAny(upsertIfAny(user_skills,
                                            skillsToSave(target_role_skills, ratings)),
                                unratedSkills(target_role_skills, ratings))
  /\ now' = now + 1
  /\ lastOp' = [op |-> "saveRatings", ratings |-> ratings]
  /\ UNCHANGED <<target_role_skills, skill_gap_analysis, api_usage, response,
                 requests, skillGapAnalysis>>

\* handleSkip: Save all skills with level 0 (unrated)
skippedSkills(targetSkills) ==
  [i \in 1..Len(targetSkills) |->
     [user_id |-> Caller, skill_name |-> targetSkills[i].skill_name,
      proficiency_level |-> 0,
      source |-> "role_requirement"]]

\* Rate Required Skills page, handleSkip
Skip ==
  /\ now < MaxClock
  /\ target_role_skills # <<>>
  /\ user_skills' = upsertIfAny(user_skills, skippedSkills(target_role_skills))
  /\ now' = now + 1
  /\ lastOp' = [op |-> "skip"]
  /\ UNCHANGED <<target_role_skills, skill_gap_analysis, api_usage, response,
                 requests, skillGapAnalysis>>

\* the rows of the roadmap the caller may select (row level security), the
\* latest analyzed_at first; rows of equal analyzed_at in table order
latestAnalysis(table) ==
  LET own == SelectSeq(table, LAMBDA r : r.roadmap_id = Roadmap /\ r.user_id = Caller)
      latest == { i \in 1..Len(own) :
                    \A j \in 1..Len(own) : own[j].analyzed_at <= own[i].analyzed_at }
  IN IF own = <<>> THEN <<>> ELSE << own[Min(latest)] >>

\* Roadmap page, loadRoadmap: Load skill gap analysis; .single() gives null
\* when there is no row and the state is then left as it is
LoadRoadmap ==
  /\ skillGapAnalysis' = IF latestAnalysis(skill_gap_analysis) # <<>>
                           THEN latestAnalysis(skill_gap_analysis)
                           ELSE skillGapAnalysis
  /\ lastOp' = [op |-> "loadRoadmap",
                found |-> latestAnalysis(skill_gap_analysis) # <<>>]
  /\ UNCHANGED <<user_skills, target_role_skills, skill_gap_analysis, api_usage,
                 response, now, requests>>

\* the inputs of the app: the names and levels a user enters, the faults and
\* the answers of the collaborators
NewSkillNames == {N_SQL, N_sql, N_Leadership}

NewLevels == {3}

AppFaults == {"none", "userSkillsError"}

AppGenerationAnswers ==
  { g \in GenerationAnswers :
      g.kind = "notok" \/ (g.kind = "ok" /\ g.skills[1].requiredLevel <= 5) }

\* one statement of the invocation p
Step(p) ==
  \/ \E fault \in AppFaults : ReadUserSkills(p, fault)
  \/ \E fault \in {"none", "targetSkillsError"} : ReadTargetSkills(p, fault)
  \/ \E gen \in AppGenerationAnswers \cup {NotAsked} : Generate(p, gen)
  \/ AutoAdd(p)
  \/ \E storeOk \in BOOLEAN : Save(p, NoRecommendation, storeOk)
  \/ TrackUsage(p)

\* two invocations for the same roadmap and user that overlap
ConcNext == \E p \in Requests : Step(p)

SpecConc == Init /\ [][ConcNext]_vars

\* one invocation while the user edits the skill profile and opens the
\* Roadmap page
AppNext ==
  \/ Step("a")
  \/ \E skillName \in NewSkillNames, level \in NewLevels : AddSkill(skillName, level)
  \/ \E skillId \in 1..Len(user_skills), level \in NewLevels : UpdateSkill(skillId, level)
  \/ \E ratings \in Ratings : SaveRatings(ratings)
  \/ Skip
  \/ LoadRoadmap

SpecApp == Init /\ [][AppNext]_vars

----------------------------------------------------------------------------
(* Properties *)

\* a step of the handler that answered 200
RecomputeSucceeded ==
  /\ lastOp'.op = "recompute"
  /\ now' = now + 1
  /\ response'.status = 200

\* the rows of the pair (Roadmap, Caller) in the analysis store
storedAnalyses ==
  SelectSeq(skill_gap_analysis,
            LAMBDA r : r.roadmap_id = Roadmap /\ r.user_id = Caller)

\* round(num / den), halves rounded up
RoundHalfUp(num, den) == (2 * num + den) \div (2 * den)

RECURSIVE creditedTotal(_, _)
\* the sum over the required skills of min(currentLevel, requiredLevel), with
\* currentLevel the level the gap calculation credits
creditedTotal(userSkills, targetSkills) ==
  IF targetSkills = <<>> THEN 0
  ELSE LET current == matchTarget(userSkills, Head(targetSkills)).currentLevel
           required == Head(targetSkills).required_level
       IN (IF current < required THEN current ELSE required)
            + creditedTotal(userSkills, Tail(targetSkills))

\* C1: every recompute over a non-empty requirement list answers with
\* overallReadiness = round(100 * sum of min(currentLevel, requiredLevel) /
\* sum of requiredLevel), currentLevel being the level the gap calculation
\* credits (exact, similar or transferable) for each required skill of the
\* list it analyzed, satisfied skills included
C1_ReadinessOfCreditedLevels ==
  [][ (RecomputeSucceeded /\ rowsOfRoadmap(target_role_skills', Roadmap) # <<>>)
        => response'.analysis[1].overall_readiness
             = RoundHalfUp(100 * creditedTotal(rowsOfUser(user_skills, Caller),
                                               rowsOfRoadmap(target_role_skills', Roadmap)),
                           totalRequired(rowsOfRoadmap(target_role_skills', Roadmap))) ]_vars

\* the scenario of C2: the role and the user of the example
ExampleRole ==
  << targetSkillRow(N_SQL, 4, "critical"), targetSkillRow(N_Leadership, 3, "high") >>

ExampleUser ==
  << userSkillRow(N_sql, 2), userSkillRow(N_TeamManagement, 4) >>

\* the gap list the example expects, without the recommendations
exampleGaps(gaps) ==
  /\ Len(gaps) = 2
  /\ gaps[1].skillName = N_SQL /\ gaps[1].currentLevel = 2
  /\ gaps[1].gap = 2 /\ gaps[1].priority = "critical"
  /\ gaps[2].skillName = N_Leadership /\ gaps[2].currentLevel = 2
  /\ gaps[2].gap = 1 /\ gaps[2].priority = "high"
  /\ gaps[2].matchedUserSkill = N_TeamManagement \o TransferableSuffix

\* C2: for the role {SQL: 4 critical, Leadership: 3 high} and the user
\* {"sql": 2, "Team Management": 4} a recompute answers with the gaps
\* [SQL current 2 gap 2 critical, Leadership current 2 gap 1 high], Leadership
\* credited transferably from "Team Management", and overallReadiness 57
C2_ExampleScenario ==
  [][ (/\ RecomputeSucceeded
       /\ user_skills = ExampleUser
       /\ target_role_skills = ExampleRole)
        => /\ exampleGaps(response'.analysis[1].critical_gaps)
           /\ response'.analysis[1].overall_readiness = 57 ]_vars

\* the entries of a sequence of records whose field names the skill
entriesFor(records, field, name) ==
  { i \in 1..Len(records) : records[i][field] = name }

\* C3: in every recompute, a required skill whose normalized name equals the
\* normalized name of a user skill is matched in the exact tier: it is
\* credited that user skill's raw level (so it is listed as a gap exactly when
\* that level is below the required one, with that currentLevel), no
\* skillMatches entry is recorded for it and matchedUserSkill stays unset
C3_ExactnessPriority ==
  [][ RecomputeSucceeded =>
        \A t \in 1..Len(rowsOfRoadmap(target_role_skills', Roadmap)) :
          LET target == rowsOfRoadmap(target_role_skills', Roadmap)[t]
              userSkills == rowsOfUser(user_skills, Caller)
              gaps == response'.analysis[1].critical_gaps
              equal == { u \in 1..Len(userSkills) :
                           normalizeSkill(userSkills[u].skill_name)
                             = normalizeSkill(target.skill_name) }
          IN equal # {} =>
               /\ entriesFor(response'.skillMatches, "requiredSkill", target.skill_name) = {}
               /\ \E u \in equal :
                    /\ (userSkills[u].proficiency_level < target.required_level)
                         <=> (entriesFor(gaps, "skillName", target.skill_name) # {})
                    /\ \A g \in entriesFor(gaps, "skillName", target.skill_name) :
                         /\ gaps[g].currentLevel = userSkills[u].proficiency_level
                         /\ gaps[g].matchedUserSkill = Undefined ]_vars

\* an analysis without its timestamp
withoutAnalyzedAt(analysis) ==
  [overall_readiness |-> analysis.overall_readiness,
   critical_gaps |-> analysis.critical_gaps,
   recommendations |-> analysis.recommendations,
   milestone_skill_mapping |-> analysis.milestone_skill_mapping]

C5_OneRecordPerPair ==
  (lastOp.op = "recompute" /\ response.status = 200 /\ lastOp.storeOk)
    => /\ Len(storedAnalyses) = 1
       /\ storedAnalyses[1] = response.analysis[1]

\* C6: a recompute for a role without stored required skills that gets no
\* persisted list from the generation (the role still has none afterwards)
\* ends in a failure and leaves the analysis store as it was
C6_RequirementsUnavailable ==
  [][ (/\ lastOp'.op = "recompute"
       /\ now' = now + 1
       /\ rowsOfRoadmap(target_role_skills, Roadmap) = <<>>
       /\ rowsOfRoadmap(target_role_skills', Roadmap) = <<>>)
        => /\ response'.status # 200
           /\ skill_gap_analysis' = skill_gap_analysis ]_vars

\* C7: a recompute whose write of the analysis the store refuses reports a
\* failure (no 200 response carrying an analysis) and leaves the stored
\* analysis unchanged
C7_WriteFailureSurfaced ==
  [][ (/\ lastOp'.op = "recompute"
       /\ now' = now + 1
       /\ ~lastOp'.storeOk)
        => /\ response'.status # 200
           /\ skill_gap_analysis' = skill_gap_analysis ]_vars

\* C8: after a recompute that completes for a role with required skills,
\* every required skill has a record in the user's skill set: the records
\* that existed are kept and each missing one is there at level 0 with source
\* role_requirement
C8_AutoAddComplete ==
  [][ (RecomputeSucceeded /\ rowsOfRoadmap(target_role_skills', Roadmap) # <<>>)
        => /\ \A i \in 1..Len(user_skills) : user_skills'[i] = user_skills[i]
           /\ \A t \in 1..Len(rowsOfRoadmap(target_role_skills', Roadmap)) :
                LET name == rowsOfRoadmap(target_role_skills', Roadmap)[t].skill_name
                IN \/ \E i \in 1..Len(user_skills) :
                        lower(user_skills[i].skill_name) = lower(name)
                   \/ \E i \in 1..Len(user_skills') :
                        /\ user_skills'[i].skill_name = name
                        /\ user_skills'[i].proficiency_level = 0
                        /\ user_skills'[i].source = "role_requirement" ]_vars

\* C9: after a recompute for a role with at least one required skill,
\* overallReadiness is 100 exactly when criticalGaps is empty, that is when
\* every required skill is credited at least its required level
C9_FullReadinessIffNoGaps ==
  (/\ lastOp.op = "recompute"
   /\ response.status = 200
   /\ rowsOfRoadmap(target_role_skills, Roadmap) # <<>>)
    => (response.analysis[1].overall_readiness = 100
          <=> response.analysis[1].critical_gaps = <<>>)

\* C10: for every user skill list with levels 0..5 and every requirement list
\* with levels 1..5, overallReadiness is an integer from 0 to 100, and it is
\* 0 for the empty requirement list
C10_ReadinessBounded ==
  lastOp.op = "calculate"
    => /\ response.analysis[1].overall_readiness \in 0..100
       /\ target_role_skills = <<>> => response.analysis[1].overall_readiness = 0

\* a calculation that caps an over-qualified skill at its requirement: the
\* user holds a level above the required one and the readiness is 100
C10_Witness ==
  /\ lastOp.op = "calculate"
  /\ response.analysis[1].overall_readiness = 100
  /\ \E t \in 1..Len(target_role_skills) :
       readinessLevel(user_skills, target_role_skills[t])
         > target_role_skills[t].required_level

\* C14: a recompute that reaches the recommendation generator and gets an
\* answer that cannot be parsed still answers 200 with an empty role-level
\* recommendations list and empty per-gap recommendations, and with the
\* readiness, the gap entries and their order of the calculation
C14_MalformedRecommendations ==
  [][ (/\ lastOp'.op = "recompute"
       /\ now' = now + 1
       /\ lastOp'.fault = "none"
       /\ lastOp'.gen # "throws"
       /\ lastOp'.rec.kind = "unparsable")
        => /\ response'.status = 200
           /\ response'.analysis[1].recommendations = <<>>
           /\ response'.analysis[1].critical_gaps
                = skillGapsOf(rowsOfUser(user_skills, Caller),
                              rowsOfRoadmap(target_role_skills', Roadmap))
           /\ response'.analysis[1].overall_readiness
                = overallReadinessOf(rowsOfUser(user_skills, Caller),
                                     rowsOfRoadmap(target_role_skills', Roadmap)) ]_vars

\* the user skills that share a category of transferableMap with the target
\* under another (lower-cased) name
transferableDonors(userSkills, target) ==
  { u \in 1..Len(userSkills) :
      /\ lower(userSkills[u].skill_name) # lower(target.skill_name)
      /\ \E c \in 1..Len(transferableMap) :
           fallsUnder(target.skill_name, c) /\ fallsUnder(userSkills[u].skill_name, c) }

\* the required skills whose only available match is a transferable one
onlyTransferable(userSkills, targetSkills) ==
  { t \in 1..Len(targetSkills) :
      /\ \A u \in 1..Len(userSkills) :
           ~similarTo(userSkills[u].skill_name, targetSkills[t].skill_name)
      /\ transferableDonors(userSkills, targetSkills[t]) # {} }

\* C15: a required skill whose only available match is transferable, with a
\* donor of level L, is credited floor(L / 2): it is listed as a gap exactly
\* when floor(L / 2) is below the required level, with that currentLevel, the
\* donor as matchedUserSkill and gap = requiredLevel - floor(L / 2)
C15_TransferableDiscount ==
  lastOp.op = "calculate" =>
    \A t \in onlyTransferable(user_skills, target_role_skills) :
      LET target == target_role_skills[t]
          gaps == response.analysis[1].critical_gaps
      IN \E u \in transferableDonors(user_skills, target) :
           LET credit == user_skills[u].proficiency_level \div 2
           IN /\ \E m \in 1..Len(response.skillMatches) :
                   /\ response.skillMatches[m].requiredSkill = target.skill_name
                   /\ response.skillMatches[m].userSkill = user_skills[u].skill_name
                   /\ response.skillMatches[m].matchType = "transferable"
              /\ (credit < target.required_level)
                   <=> (entriesFor(gaps, "skillName", target.skill_name) # {})
              /\ \A g \in entriesFor(gaps, "skillName", target.skill_name) :
                   /\ gaps[g].currentLevel = credit
                   /\ gaps[g].gap = target.required_level - credit
                   /\ gaps[g].matchedUserSkill
                        = user_skills[u].skill_name \o TransferableSuffix

\* a calculation in which a donor of level 5 is the only match of a required
\* skill, which is credited 2
C15_Witness ==
  /\ lastOp.op = "calculate"
  /\ \E t \in onlyTransferable(user_skills, target_role_skills) :
       \E u \in transferableDonors(user_skills, target_role_skills[t]) :
         /\ user_skills[u].proficiency_level = 5
         /\ \E g \in entriesFor(response.analysis[1].critical_gaps, "skillName",
                                 target_role_skills[t].skill_name) :
              response.analysis[1].critical_gaps[g].currentLevel = 2

\* the rank of a priority in the order critical, high, medium, low
priorityRank(p) ==
  CHOOSE k \in 1..4 : <<"critical", "high", "medium", "low">>[k] = p

\* the position in the requirement list of the required skill of a gap
requirementIndex(targetSkills, gap) ==
  CHOOSE t \in 1..Len(targetSkills) : targetSkills[t].skill_name = gap.skillName

\* C16: criticalGaps is ordered by priority rank ascending; of two gaps of
\* equal priority the one with the strictly larger gap comes first; two gaps
\* of equal priority and equal gap keep the order of the requirement list
C16_GapOrdering ==
  lastOp.op = "calculate" =>
    LET gaps == response.analysis[1].critical_gaps
    IN \A i, j \in 1..Len(gaps) :
         i < j =>
           /\ priorityRank(gaps[i].priority) <= priorityRank(gaps[j].priority)
           /\ gaps[i].priority = gaps[j].priority => gaps[i].gap >= gaps[j].gap
           /\ (gaps[i].priority = gaps[j].priority /\ gaps[i].gap = gaps[j].gap)
                => requirementIndex(target_role_skills, gaps[i])
                     < requirementIndex(target_role_skills, gaps[j])

\* a calculation that moves the second required skill to the front: equal
\* priorities, the larger gap second in the requirement list
C16_Witness ==
  /\ lastOp.op = "calculate"
  /\ Len(target_role_skills) = 2
  /\ LET gaps == response.analysis[1].critical_gaps
     IN /\ Len(gaps) = 2
        /\ gaps[1].priority = gaps[2].priority
        /\ gaps[1].gap > gaps[2].gap
        /\ gaps[1].skillName = target_role_skills[2].skill_name

\* C17: every entry of criticalGaps has gap = max(0, requiredLevel -
\* currentLevel) > 0 and the name, requiredLevel and priority of a required
\* skill, and a required skill is listed exactly when the level credited to
\* it is below its requiredLevel
C17_GapEntries ==
  lastOp.op = "calculate" =>
    LET gaps == response.analysis[1].critical_gaps
    IN /\ \A g \in 1..Len(gaps) :
            /\ gaps[g].gap = Max({0, gaps[g].requiredLevel - gaps[g].currentLevel})
            /\ gaps[g].gap > 0
            /\ \E t \in 1..Len(target_role_skills) :
                 /\ target_role_skills[t].skill_name = gaps[g].skillName
                 /\ target_role_skills[t].required_level = gaps[g].requiredLevel
                 /\ target_role_skills[t].priority = gaps[g].priority
                 /\ matchTarget(user_skills, target_role_skills[t]).currentLevel
                      = gaps[g].currentLevel
       /\ \A t \in 1..Len(target_role_skills) :
            (matchTarget(user_skills, target_role_skills[t]).currentLevel
               < target_role_skills[t].required_level)
              <=> (Cardinality(entriesFor(gaps, "skillName",
                                          target_role_skills[t].skill_name)) = 1)

\* a calculation over two required skills of which one is met (credited above
\* its requirement) and left out and the other is listed
C17_Witness ==
  /\ lastOp.op = "calculate"
  /\ Len(target_role_skills) = 2
  /\ Len(response.analysis[1].critical_gaps) = 1
  /\ \E t \in 1..2 :
       matchTarget(user_skills, target_role_skills[t]).currentLevel
         > target_role_skills[t].required_level

\* C18: a recompute for a user without skill records, with no fault of the
\* request and no collaborator failing to answer, is not an error: it answers
\* 200, every required skill is listed with currentLevel 0 and gap equal to
\* its requiredLevel, no match is recorded and overallReadiness is 0
C18_NoSkillRecords ==
  [][ (/\ lastOp'.op = "recompute"
       /\ now' = now + 1
       /\ lastOp'.fault = "none"
       /\ lastOp'.gen # "throws"
       /\ lastOp'.rec.kind # "throws"
       /\ rowsOfUser(user_skills, Caller) = <<>>)
        => /\ response'.status = 200
           /\ response'.skillMatches = <<>>
           /\ response'.analysis[1].overall_readiness = 0
           /\ Len(response'.analysis[1].critical_gaps)
                = Len(rowsOfRoadmap(target_role_skills', Roadmap))
           /\ \A t \in 1..Len(rowsOfRoadmap(target_role_skills', Roadmap)) :
                LET target == rowsOfRoadmap(target_role_skills', Roadmap)[t]
                    gaps == response'.analysis[1].critical_gaps
                IN \E g \in 1..Len(gaps) :
                     /\ gaps[g].skillName = target.skill_name
                     /\ gaps[g].currentLevel = 0
                     /\ gaps[g].requiredLevel = target.required_level
                     /\ gaps[g].gap = target.required_level
                     /\ gaps[g].priority = target.priority
                     /\ gaps[g].matchedUserSkill = Undefined ]_vars

\* a recompute for a user without skill records over two required skills
C18_Witness ==
  /\ lastOp.op = "recompute"
  /\ response.status = 200
  /\ rowsOfUser(user_skills, Caller) = <<>>
  /\ Len(rowsOfRoadmap(target_role_skills, Roadmap)) = 2
  /\ Len(response.analysis[1].critical_gaps) = 2

\* the skillMatches entries of a match type recorded for a required skill
matchesOfType(skillMatches, name, type) ==
  { m \in 1..Len(skillMatches) :
      skillMatches[m].requiredSkill = name /\ skillMatches[m].matchType = type }

\* C19: the tiers are tried in strict order whatever the level of the skill a
\* tier finds: no similar and no transferable match is recorded for a required
\* skill that a user skill matches exactly (equal normalized names), and no
\* transferable match for one that a user skill matches in the similar tier
C19_StrictTierOrder ==
  lastOp.op = "calculate" =>
    \A t \in 1..Len(target_role_skills) :
      LET name == target_role_skills[t].skill_name
          exact == { u \in 1..Len(user_skills) :
                       normalized(user_skills[u].skill_name) = normalized(name) }
          similar == { u \in 1..Len(user_skills) :
                         similarTo(user_skills[u].skill_name, name) }
      IN /\ exact # {} =>
              /\ matchesOfType(response.skillMatches, name, "similar") = {}
              /\ matchesOfType(response.skillMatches, name, "transferable") = {}
         /\ similar # {} =>
              matchesOfType(response.skillMatches, name, "transferable") = {}

\* the rows of the pair (Roadmap, Caller) in a state of the analysis store
analysesOf(table) ==
  SelectSeq(table, LAMBDA r : r.roadmap_id = Roadmap /\ r.user_id = Caller)

\* the step is the upsert of skill_gap_analysis by an invocation, the store
\* being available
UpsertCommitted ==
  /\ lastOp'.op = "save"
  /\ lastOp'.storeOk
  /\ requests[lastOp'.request].pc = "save"
  /\ requests'[lastOp'.request].pc = "track"

\* C11: while two recomputes for the pair overlap, the store holds at most one
\* record for the pair, the record is the row computed by a single invocation,
\* and after each upsert the record is the one that upsert wrote (so that the
\* upsert that commits last decides the record both leave behind)
C11_ConcurrentUpserts ==
  [][ /\ Len(analysesOf(skill_gap_analysis')) <= 1
      /\ \A i \in 1..Len(analysesOf(skill_gap_analysis')) :
           \E p \in Requests :
             requests'[p].row = << analysesOf(skill_gap_analysis')[i] >>
      /\ UpsertCommitted
           => analysesOf(skill_gap_analysis') = requests'[lastOp'.request].row ]_vars

\* the rows an invocation tries to auto-add that are in the table by now
overtaken(p) ==
  { i \in 1..Len(user_skills) :
      \E r \in 1..Len(skillsToAdd(Caller, requests[p].userSkills, requests[p].targetSkills)) :
        skillsToAdd(Caller, requests[p].userSkills, requests[p].targetSkills)[r].skill_name
          = user_skills[i].skill_name }

sameNormalizedName(table, name) ==
  { i \in 1..Len(table) : normalized(table[i].skill_name) = normalized(name) }

\* C13: a user never has two skill records with the same normalized name, and
\* adding a skill whose normalized name is that of an existing record updates
\* that record (it takes the level entered) instead of creating a second one
C13_OneRecordPerNormalizedName ==
  [][ /\ \A i, j \in 1..Len(user_skills') :
           i # j => normalized(user_skills'[i].skill_name)
                      # normalized(user_skills'[j].skill_name)
      /\ (/\ lastOp'.op = "addSkill"
          /\ now' = now + 1
          /\ sameNormalizedName(user_skills, lastOp'.skillName) # {})
           => /\ Len(user_skills') = Len(user_skills)
              /\ \A i \in sameNormalizedName(user_skills, lastOp'.skillName) :
                   user_skills'[i].proficiency_level = lastOp'.proficiencyLevel ]_vars

\* the pair was analysed: an invocation for it has answered 200, which is
\* what the usage row of the operation records
analysed == \E i \in 1..Len(api_usage) : /\ api_usage[i].operation = "analyze_gaps"
                                          /\ api_usage[i].roadmap_id = Roadmap
                                          /\ api_usage[i].user_id = Caller

\* C12: a read of the latest analysis writes nothing and deletes nothing (the
\* tables are the same before and after it), it finds an analysis exactly
\* when the pair was analysed, and what it returns is the most recently
\* stored analysis of the pair
C12_ReadLatestAnalysis ==
  [][ lastOp'.op = "loadRoadmap"
        => /\ skill_gap_analysis' = skill_gap_analysis
           /\ user_skills' = user_skills
           /\ api_usage' = api_usage
           /\ lastOp'.found <=> analysed
           /\ lastOp'.found => skillGapAnalysis' = latestAnalysis(skill_gap_analysis) ]_vars

\* C21: a role's requirement list is created at most once. No statement of
\* a recompute changes the stored list of a role that has one, and an
\* invocation whose generation answered with a list goes on with the list
\* that is stored for the role, also when two invocations overlap
C21_RequirementsCreatedOnce ==
  [][ /\ rowsOfRoadmap(target_role_skills, Roadmap) # <<>>
           => target_role_skills' = target_role_skills
      /\ (lastOp'.op = "generate" /\ lastOp'.gen = "ok" /\ requests' # requests)
           => requests'[lastOp'.request].targetSkills
                = rowsOfRoadmap(target_role_skills', Roadmap) ]_vars

\* one entry of the alias table lists both normalized names: each is the
\* entry's main name or one of its aliases
listedTogether(norm1, norm2) ==
  \E e \in 1..Len(equivalents) :
    /\ \E i \in 1..Len(allVariants(equivalents[e])) : allVariants(equivalents[e])[i] = norm1
    /\ \E i \in 1..Len(allVariants(equivalents[e])) : allVariants(equivalents[e])[i] = norm2

\* C22: two names are judged similar only if, normalized, they are
\* identical, one is a substring of the other, or one alias-table entry lists
\* both: every match of type similar a calculation records is between two
\* such names
C22_SimilarOnlyByTable ==
  lastOp.op = "calculate" =>
    \A m \in 1..Len(response.skillMatches) :
      response.skillMatches[m].matchType = "similar" =>
        LET norm1 == normalized(response.skillMatches[m].userSkill)
            norm2 == normalized(response.skillMatches[m].requiredSkill)
        IN \/ norm1 = norm2
           \/ includes(norm1, norm2)
           \/ includes(norm2, norm1)
           \/ listedTogether(norm1, norm2)

\* the matches of type transferable a calculation has recorded
transferableMatches == { m \in 1..Len(response.skillMatches) : response.skillMatches[m].matchType = "transferable" }

\* the required skill of a recorded match
requiredOf(m) ==
  target_role_skills[Min(entriesFor(target_role_skills, "skill_name",
                                    response.skillMatches[m].requiredSkill))]

\* the categories, in table order, under which the target falls together
\* with a user skill of another (lower-cased) name
sharedCategories(userSkills, target) ==
  { c \in 1..Len(transferableMap) :
      /\ fallsUnder(target.skill_name, c)
      /\ \E u \in transferableDonors(userSkills, target) :
           fallsUnder(userSkills[u].skill_name, c) }

\* C23 as stated: the donor of a transferable match is the first user skill,
\* in the order of the user's list, that shares a category with the required
\* skill under another name, whichever category that is
C23_FirstDonorInUserOrder ==
  lastOp.op = "calculate" =>
    \A m \in transferableMatches :
      response.skillMatches[m].userSkill
        = user_skills[Min(transferableDonors(user_skills, requiredOf(m)))].skill_name

\* C23 amended: the donor is the first user skill, in the order of the
\* user's list, within the first category, in the order of the category
\* table, that holds the required skill and a user skill of another name
C23_FirstDonorOfFirstCategory ==
  lastOp.op = "calculate" =>
    \A m \in transferableMatches :
      LET c == Min(sharedCategories(user_skills, requiredOf(m)))
          u == Min({ v \in transferableDonors(user_skills, requiredOf(m)) :
                       fallsUnder(user_skills[v].skill_name, c) })
      IN response.skillMatches[m].userSkill = user_skills[u].skill_name

\* a calculation whose transferable donor is not the first user skill that
\* shares a category with the required skill: an earlier one shares a later
\* category
C23_Witness ==
  /\ lastOp.op = "calculate"
  /\ \E m \in transferableMatches :
       response.skillMatches[m].userSkill
         # user_skills[Min(transferableDonors(user_skills, requiredOf(m)))].skill_name

\* the per-skill list the generator's answer holds under exactly this key
perSkillList(rec, skillName) ==
  IF rec.kind = "ok" /\ skillName \in DOMAIN rec.skillRecommendations
    THEN rec.skillRecommendations[skillName]
    ELSE <<>>

\* C24: after a recompute each gap's recommendations are the generator's
\* list stored under the key that equals the gap's skill name exactly, and
\* empty when there is none; every other field of every gap, and the order
\* of the gaps, are those of the calculation
C24_RecommendationsMerged ==
  [][ RecomputeSucceeded
        => LET gaps == skillGapsOf(rowsOfUser(user_skills, Caller),
                                   rowsOfRoadmap(target_role_skills', Roadmap))
               merged == response'.analysis[1].critical_gaps
           IN /\ Len(merged) = Len(gaps)
              /\ \A i \in 1..Len(gaps) :
                   merged[i] = [gaps[i] EXCEPT !.recommendations =
                                  perSkillList(lastOp'.rec, gaps[i].skillName)] ]_vars

\* a recompute whose generator answered with per-skill lists: one gap took
\* the list of its key, another has a key that differs from its name in
\* case only and stays without recommendations
C24_Witness ==
  /\ lastOp.op = "recompute"
  /\ response.status = 200
  /\ lastOp.rec.kind = "ok"
  /\ \E i, j \in 1..Len(response.analysis[1].critical_gaps) :
       LET gaps == response.analysis[1].critical_gaps
       IN /\ gaps[i].recommendations # <<>>
          /\ gaps[j].recommendations = <<>>
          /\ \E k \in DOMAIN lastOp.rec.skillRecommendations :
               k # gaps[j].skillName /\ lower(k) = lower(gaps[j].skillName)

\* the user's skills with the level of skill i raised to level
raised(userSkills, i, level) == [userSkills EXCEPT ![i].proficiency_level = level]

levelOf(userSkills, name) ==
  userSkills[Min(entriesFor(userSkills, "skill_name", name))].proficiency_level

ownedByCaller(roadmapId) ==
  \E i \in 1..Len(roadmaps) : roadmaps[i].id = roadmapId /\ roadmaps[i].user_id = Caller

\* the rows a step has added to a table or changed in it
written(before, after) ==
  { i \in 1..Len(after) : i > Len(before) \/ after[i] # before[i] }

\* C27: a recompute reads and writes only data of the authenticated caller:
\* the skill records and the analysis it writes carry the caller's id, the
\* required skills it inserts and the analysis it stores are of a roadmap the
\* caller owns, and for a roadmap of another user it answers with an error
\* and writes no table
C27_OnlyCallersData ==
  [][ lastOp'.op = "recompute"
        => /\ \A i \in written(user_skills, user_skills') :
                user_skills'[i].user_id = Caller
           /\ \A i \in written(skill_gap_analysis, skill_gap_analysis') :
                /\ skill_gap_analysis'[i].user_id = Caller
                /\ ownedByCaller(skill_gap_analysis'[i].roadmap_id)
           /\ \A i \in written(target_role_skills, target_role_skills') :
                ownedByCaller(target_role_skills'[i].roadmap_id)
           /\ ~ownedByCaller(lastOp'.roadmapId)
                => /\ response'.status # 200
                   /\ UNCHANGED <<user_skills, target_role_skills, skill_gap_analysis>> ]_vars

\* C28: a recompute that answers with an error has written nothing: the
\* required skills, the user's skill records, the analysis store and the
\* usage rows are what they were before the request
C28_ErrorWritesNothing ==
  [][ (/\ lastOp'.op = "recompute"
       /\ now' = now + 1
       /\ response'.status # 200)
        => UNCHANGED <<target_role_skills, user_skills, skill_gap_analysis, api_usage>> ]_vars

\* the records of the user, before a step of the rating page, of the
\* required skills the step writes at level 0: every required skill when the
\* user skips, those left unrated when the user saves
leftUnrated ==
  { i \in 1..Len(user_skills) :
      \E t \in 1..Len(target_role_skills) :
        /\ target_role_skills[t].skill_name = user_skills[i].skill_name
        /\ lastOp'.op = "saveRatings" => lastOp'.ratings[user_skills[i].skill_name] = 0 }

levelByName(userSkills, name) ==
  LET same == { i \in 1..Len(userSkills) : lower(userSkills[i].skill_name) = lower(name) }
  IN IF same = {} THEN 0 ELSE userSkills[Min(same)].proficiency_level

RECURSIVE cappedTotal(_, _)
\* the sum of min(level, requiredLevel) over the required skills
cappedTotal(userSkills, targetSkills) ==
  IF targetSkills = <<>> THEN 0
  ELSE LET level == levelByName(userSkills, Head(targetSkills).skill_name)
           required == Head(targetSkills).required_level
       IN (IF level < required THEN level ELSE required)
            + cappedTotal(userSkills, Tail(targetSkills))

\* every user skill that is similar to a required skill has its name, case
\* apart
onlyExactMatches(userSkills, targetSkills) ==
  \A u \in 1..Len(userSkills), t \in 1..Len(targetSkills) :
    similarTo(userSkills[u].skill_name, targetSkills[t].skill_name)
      => lower(userSkills[u].skill_name) = lower(targetSkills[t].skill_name)

\* C30: calculate_skill_readiness returns an integer in 0..100 that is
\* round(100 * sum of min(level, requiredLevel) / sum of requiredLevel), the
\* level being the user's for the same name case-insensitively and 0 without
\* such a skill, and 0 for a role without required skills; where every match
\* is a case-insensitive exact name match it is the overallReadiness of a
\* recompute
C30_HelperReadiness ==
  lastOp.op = "calculate_skill_readiness" =>
    /\ lastOp.readiness \in 0..100
    /\ lastOp.readiness
         = IF totalRequired(target_role_skills) = 0 THEN 0
           ELSE RoundHalfUp(100 * cappedTotal(user_skills, target_role_skills),
                            totalRequired(target_role_skills))
    /\ onlyExactMatches(user_skills, target_role_skills)
         => lastOp.readiness = overallReadinessOf(user_skills, target_role_skills)

====
